---- MODULE Spec2Model ----
(***************************************************************************)
(* Model of the ownCloud / SharePoint mirroring tool.                      *)
(*                                                                         *)
(*   src/sharepoint_download.py  DownloadState (the persistent retry       *)
(*                               store), SharePointDownloader, main        *)
(*   src/main.py                 the ownCloud run: scan_directory,         *)
(*                               download_and_monitor_with_retry,          *)
(*                               monitor_download, move_file_to_directory, *)
(*                               main                                      *)
(*   src/download.py             the interactive entry (same SharePoint    *)
(*                               flow as sharepoint_download.main)         *)
(*                                                                         *)
(* The remote share, the browser and the operating system are the          *)
(* environment: what a listing returns, whether a download is triggered,   *)
(* what the browser deposits in the landing directory and when the process *)
(* is killed are inputs drawn with \E.                                     *)
(***************************************************************************)
EXTENDS Naturals, Integers, Sequences, FiniteSets, TLC

VARIABLES
  program,       \* which downloader download.main dispatches to
  remote,        \* the remote tree, as the steps of one pass over it
  cwd,           \* the folder the browser session shows
  fs,            \* the local file system below the download directory
  now,           \* int(time.time()), the wall clock in seconds
  pc,            \* position of the running process, "off" when none runs
  todo,          \* steps the traversal pass still has to take, in order
  download_stats,\* the global download_stats of the running program
  \* sharepoint_download.py
  failed_files,  \* DownloadState.failed_files (in memory)
  state_file,    \* <download_dir>/.download_state.json (on disk)
  io_faulty,     \* whether writes of the state file may fail (environment)
  pending,       \* the list get_failed_files() returned last
  groups,        \* retry round: the by_path groups still to be handled
  \* main.py
  cycle_count,         \* main: cycle_count
  oc_failed_files,     \* the global failed_files of main.py
  retry_list,          \* main: the part of failed_files the retry loop has left
  retry_failed_files,  \* main: retry_failed_files
  \* monitor_download (both programs)
  monitor,       \* its locals: start_time, last_size, stable_count, result
  \* history variables, read by the properties only
  attempts,      \* download attempts per item since the last clear_state
  last_op,       \* the DownloadState call made by the last step
  runs,          \* number of process starts so far
  faulted,       \* the environment has failed some request or killed a process
  triggered,     \* a download was triggered in the current run
  samples,       \* the sizes monitor_download has read of the file in progress
  handle         \* age of the page listing in hand and of the row handles used

sp_vars == <<failed_files, state_file, io_faulty, pending, groups>>
oc_vars == <<cycle_count, oc_failed_files, retry_list, retry_failed_files>>

vars == <<program, remote, cwd, fs, now, pc, todo, download_stats, sp_vars,
          oc_vars, monitor, attempts, last_op, runs, faulted, triggered, samples,
          handle>>

-----------------------------------------------------------------------------
(* Bounds of the model *)

\* config.SHAREPOINT_MAX_RETRIES / config.MAX_RETRIES (src/config.py:46, :15
\* set 10); the model runs a scaled-down configuration.
max_retries == 2

\* Download attempts per item the model follows before it stops exploring.
MaxAttempts == 4

\* Process starts the model follows.
MaxRuns == 3

\* Largest clock value the model follows.
MaxTime == 2

-----------------------------------------------------------------------------
(* File names, paths and the remote tree *)

\* A file name: stem, the "_<n>" suffixes appended to the stem, the extension,
\* and whether it carries Chrome's ".crdownload" suffix.
FileName(stem, ext) == [stem |-> stem, tag |-> <<>>, ext |-> ext, cr |-> FALSE]

\* os.path.splitext(filename), followed by f"{name}_{timestamp}{ext}".
StampedName(filename, timestamp) ==
  [filename EXCEPT !.tag = Append(@, timestamp)]

\* A remote path is the sequence of folder names from the tree root; the root
\* itself is <<>> (current_path == "").
RootPath == <<>>

\* Size and content of the remote files (content is an opaque identity).
RemoteContent(item) ==
  IF item.name.stem = "r" THEN [size |-> 1, id |-> "r"]
  ELSE IF item.name.stem = "x" /\ item.path = <<>>
       THEN [size |-> 3, id |-> "x in the root"]
  ELSE IF item.name.stem = "x" THEN [size |-> 2, id |-> "x"]
  ELSE [size |-> 3, id |-> item.name.stem]

\* The steps of one traversal pass over a tree, depth first: the files of a
\* folder, then for each sub-folder enter, its steps, and the way back.
\* The tree of most checks: one file in the root, one folder A holding one file.
TraverseOrder ==
  << [kind |-> "file",  name |-> FileName("r", "txt"), path |-> RootPath],
     [kind |-> "enter", name |-> "A",                  path |-> RootPath],
     [kind |-> "file",  name |-> FileName("x", "txt"), path |-> <<"A">>],
     [kind |-> "leave", name |-> "A",                  path |-> RootPath] >>

\* The tree /A/x.txt, /A/B/y.txt.
ScenarioOrder ==
  << [kind |-> "enter", name |-> "A",                  path |-> RootPath],
     [kind |-> "file",  name |-> FileName("x", "txt"), path |-> <<"A">>],
     [kind |-> "enter", name |-> "B",                  path |-> <<"A">>],
     [kind |-> "file",  name |-> FileName("y", "txt"), path |-> <<"A", "B">>],
     [kind |-> "leave", name |-> "B",                  path |-> <<"A">>],
     [kind |-> "leave", name |-> "A",                  path |-> RootPath] >>

\* The tree /x.txt, /A/x.txt, /B/y.txt: two sibling folders, and a name that
\* is used in two folders.
\* A traversal that turns to the sub-folders before the files.
SiblingOrder_folders_first ==
  << [kind |-> "enter", name |-> "A",                  path |-> RootPath],
     [kind |-> "file",  name |-> FileName("x", "txt"), path |-> <<"A">>],
     [kind |-> "leave", name |-> "A",                  path |-> RootPath],
     [kind |-> "file",  name |-> FileName("x", "txt"), path |-> RootPath],
     [kind |-> "enter", name |-> "B",                  path |-> RootPath],
     [kind |-> "file",  name |-> FileName("y", "txt"), path |-> <<"B">>],
     [kind |-> "leave", name |-> "B",                  path |-> RootPath] >>

SiblingOrder ==
  << [kind |-> "file",  name |-> FileName("x", "txt"), path |-> RootPath],
     [kind |-> "enter", name |-> "A",                  path |-> RootPath],
     [kind |-> "file",  name |-> FileName("x", "txt"), path |-> <<"A">>],
     [kind |-> "leave", name |-> "A",                  path |-> RootPath],
     [kind |-> "enter", name |-> "B",                  path |-> RootPath],
     [kind |-> "file",  name |-> FileName("y", "txt"), path |-> <<"B">>],
     [kind |-> "leave", name |-> "B",                  path |-> RootPath] >>

Item(step) == [name |-> step.name, path |-> step.path]

\* What the listing of a folder of the remote tree shows: its sub-folders and
\* its files (get_items / get_file_list, by name).
Folders(path) ==
  { remote[k].name : k \in {j \in 1..Len(remote) :
                               remote[j].kind = "enter" /\ remote[j].path = path} }

Files(path) ==
  { remote[k].name : k \in {j \in 1..Len(remote) :
                               remote[j].kind = "file" /\ remote[j].path = path} }

\* The folder one level up (the last but one breadcrumb); the root has none.
Parent(path) == IF path = RootPath THEN RootPath ELSE SubSeq(path, 1, Len(path) - 1)

\* The files of the remote tree.
RemoteFiles ==
  { Item(remote[k]) : k \in {j \in 1..Len(remote) : remote[j].kind = "file"} }

\* os.path.join(dir, name) as a key of the file system.
LocalPath(dir, name) == [dir |-> dir, name |-> name]

\* os.path.exists(path)
Exists(f, p) == p \in DOMAIN f

\* The file system without path p (os.remove).
Remove(f, p) == [q \in (DOMAIN f) \ {p} |-> f[q]]

\* os.rename(src, dst): dst is replaced when it exists (POSIX).
Rename(f, src, dst) ==
  IF src = dst THEN f
  ELSE [q \in ((DOMAIN f) \ {src}) \cup {dst} |-> IF q = dst THEN f[src] ELSE f[q]]

\* The name Chrome gives a download in progress: <name>.crdownload
InProgress(filename) == [filename EXCEPT !.cr = TRUE]

\* What a download that was cut short leaves under that name.
Partial == [size |-> 0, id |-> "partial"]

\* The file system with one more file written at p.
WriteFile(f, p, content) ==
  [q \in (DOMAIN f) \cup {p} |-> IF q = p THEN content ELSE f[q]]

-----------------------------------------------------------------------------
(* DownloadState: the persistent retry store *)

\* The state file: whether it exists, and the failed_files list it holds
\* (last_updated is written and never read).
NoFile == [present |-> FALSE, failed_files |-> <<>>]

StateFile(ff) == [present |-> TRUE, failed_files |-> ff]

RECURSIVE IndexOf(_, _, _, _)
\* Position of the first record of ff with identity (filename, path) at or
\* after position i, 0 when there is none.
IndexOf(ff, filename, path, i) ==
  IF i > Len(ff) THEN 0
  ELSE IF ff[i].name = filename /\ ff[i].path = path THEN i
  ELSE IndexOf(ff, filename, path, i + 1)

\* DownloadState.save_state: the file holds failed_files; a failed write is
\* caught and logged, and leaves the file as it was.
save_state(ff, file, ok) == IF ok THEN StateFile(ff) ELSE file

\* DownloadState.load_state that rebuilds the records without their counts.
load_state_forgets_retries(file) ==
  IF file.present
  THEN [i \in 1..Len(file.failed_files) |->
          [file.failed_files[i] EXCEPT !.retries = 0]]
  ELSE <<>>

\* DownloadState.load_state that does not read the file.
load_state_ignores_file(file) == <<>>

\* DownloadState.load_state: an absent file leaves failed_files = [].
load_state(file) == IF file.present THEN file.failed_files ELSE <<>>

\* DownloadState.add_failed without the search for an existing record.
add_failed_appends(ff, file, filename, path, ok) ==
  LET new == Append(ff, [name |-> filename, path |-> path, retries |-> 1])
  IN [mem |-> new, disk |-> save_state(new, file, ok)]

\* DownloadState.add_failed, without the save of the increment branch.
add_failed_nosave(ff, file, filename, path, ok) ==
  LET i == IndexOf(ff, filename, path, 1) IN
  IF i > 0
  THEN [mem  |-> [ff EXCEPT ![i].retries = @ + 1], disk |-> file]
  ELSE LET new == Append(ff, [name |-> filename, path |-> path, retries |-> 1])
       IN [mem |-> new, disk |-> save_state(new, file, ok)]

\* DownloadState.add_failed, resetting the count of an existing record.
add_failed_reset(ff, file, filename, path, ok) ==
  LET i == IndexOf(ff, filename, path, 1) IN
  LET new == IF i > 0
             THEN [ff EXCEPT ![i].retries = 1]
             ELSE Append(ff, [name |-> filename, path |-> path, retries |-> 1])
  IN [mem |-> new, disk |-> save_state(new, file, ok)]

\* DownloadState.add_failed: the first record with the identity is incremented,
\* else a record with retries = 1 is appended; both branches save.
add_failed(ff, file, filename, path, ok) ==
  LET i == IndexOf(ff, filename, path, 1) IN
  LET new == IF i > 0
             THEN [ff EXCEPT ![i].retries = @ + 1]
             ELSE Append(ff, [name |-> filename, path |-> path, retries |-> 1])
  IN [mem |-> new, disk |-> save_state(new, file, ok)]

KeepsRecord(r, filename, path) == ~(r.name = filename /\ r.path = path)

\* DownloadState.mark_success with the filter's "not" dropped.
mark_success_inverted(ff, file, filename, path, ok) ==
  LET new == SelectSeq(ff, LAMBDA r : ~KeepsRecord(r, filename, path))
  IN [mem |-> new, disk |-> save_state(new, file, ok)]

\* DownloadState.mark_success comparing the name with the path: no record
\* ever matches.
mark_success_wrong_key(ff, file, filename, path, ok) ==
  [mem |-> ff, disk |-> save_state(ff, file, ok)]

\* DownloadState.mark_success
mark_success(ff, file, filename, path, ok) ==
  LET new == SelectSeq(ff, LAMBDA r : KeepsRecord(r, filename, path))
  IN [mem |-> new, disk |-> save_state(new, file, ok)]

\* DownloadState.get_failed_files with "<=" for "<".
get_failed_files_le(ff) == SelectSeq(ff, LAMBDA r : r.retries <= max_retries)

\* DownloadState.get_failed_files
get_failed_files(ff) == SelectSeq(ff, LAMBDA r : r.retries < max_retries)

\* DownloadState.clear_state
clear_state(ff, file) == [mem |-> <<>>, disk |-> NoFile]


-----------------------------------------------------------------------------
(* SharePointDownloader: relocation and one download *)

\* SharePointDownloader.move_file_to_directory that replaces an existing
\* destination of another size instead of stamping the name.
sp_move_overwrites(f, source, filename, target_dir, t) ==
  LET dest == LocalPath(target_dir, filename) IN
  IF source = dest THEN [fs |-> f, ok |-> TRUE]
  ELSE IF ~Exists(f, source) THEN [fs |-> f, ok |-> FALSE]
  ELSE IF Exists(f, dest) /\ f[source].size = f[dest].size
       THEN [fs |-> Remove(f, source), ok |-> TRUE]
       ELSE [fs |-> Rename(f, source, dest), ok |-> TRUE]

\* SharePointDownloader.move_file_to_directory(source_path, filename,
\* target_dir) at clock value t: the new file system and the result.  An
\* exception (the source is missing) is caught and gives False.
sp_move_file_to_directory(f, source, filename, target_dir, t) ==
  LET dest == LocalPath(target_dir, filename) IN
  IF source = dest THEN [fs |-> f, ok |-> TRUE]
  ELSE IF ~Exists(f, source) THEN [fs |-> f, ok |-> FALSE]
  ELSE IF Exists(f, dest)
       THEN IF f[source].size = f[dest].size
            THEN [fs |-> Remove(f, source), ok |-> TRUE]
            ELSE [fs |-> Rename(f, source,
                                LocalPath(target_dir, StampedName(filename, t))),
                  ok |-> TRUE]
       ELSE [fs |-> Rename(f, source, dest), ok |-> TRUE]

\* The outcomes of SharePointDownloader.download_file the environment can
\* produce once the row of the file was found:
\*   "fail"  no download button, or nothing arrived before the timeout;
\*   "ok"    the browser deposits the complete file under its own name in the
\*           landing directory (the download root), monitor_download finds it
\*           by exact match and relocates it.
DownloadOutcomes == {"fail", "ok"}

\* SharePointDownloader.download_file(item_name, row, current_path) under the
\* given outcome; the row is the one of that name in the folder the browser
\* shows.
sp_download_file(f, item, shown, outcome, t) ==
  IF outcome = "ok"
  THEN LET landed == LocalPath(RootPath, item.name)
           row == [name |-> item.name, path |-> shown]
       IN sp_move_file_to_directory(WriteFile(f, landed, RemoteContent(row)),
                                    landed, item.name, item.path, t)
  ELSE [fs |-> f, ok |-> FALSE]

\* The records a state file stands for; an absent file stands for none.
Persisted(file) == file.failed_files

Range(seq) == {seq[i] : i \in 1..Len(seq)}

\* Number of retries recorded for an identity, 0 when there is no record.
Retries(ff, filename, path) ==
  LET i == IndexOf(ff, filename, path, 1) IN IF i = 0 THEN 0 ELSE ff[i].retries

HasRecord(ff, filename, path) == IndexOf(ff, filename, path, 1) > 0

NoOp == [op |-> "none"]

\* The locals of monitor_download while no download is being monitored.
NoMonitor == [start_time |-> 0, last_size |-> 0, stable_count |-> 0,
              current_size |-> 0,
              download_file_path |-> LocalPath(RootPath, FileName("", "")),
              result |-> "idle"]

\* What the end of main tells the operator: the items it lists as failed, and
\* whether it logs that all files were downloaded.
Reported(op, listed, success) == [op |-> op, listed |-> listed, success |-> success]

ZeroStats == [total_files |-> 0, existing_files |-> 0, downloaded |-> 0,
              failed |-> 0, retried |-> 0]

\* The outcomes of a disk write: it succeeds, or (faulty storage) it may fail.
WriteOutcomes == IF io_faulty THEN BOOLEAN ELSE {TRUE}

-----------------------------------------------------------------------------
(* The SharePoint process: sharepoint_download.main / download.main *)

\* cleanup_incomplete_downloads: every *.crdownload and every *.tmp below the
\* download directory (glob with '**', recursive) is removed.
cleanup_incomplete_downloads(f) ==
  [q \in {p \in DOMAIN f : ~p.name.cr /\ p.name.ext # "tmp"} |-> f[q]]

\* What a kill does to the download directory: nothing, or, when it comes
\* while the browser is downloading a file, it leaves the part received so far
\* as <name>.crdownload in the landing directory.
KilledDownload ==
  \/ fs' = fs
  \/ /\ pc \in {"traverse", "retry", "scan"}
     /\ \E i \in RemoteFiles :
          fs' = WriteFile(fs, LocalPath(RootPath, InProgress(i.name)), Partial)

\* The row handles (WebElements) a program holds: `listing` is the age of the
\* listing taken when the folder was opened (0: the page is as it was then,
\* 1: a navigation or a download trigger has come since), `acted` the age of
\* the handle the last download trigger or step into a folder has used, and
\* `cached` the age the opening listing had at that moment.
NoHandle == [listing |-> 0, acted |-> 0, cached |-> 0]

\* The handle of the opening listing, used as it is.
relocate_cached(listing) == listing

\* sharepoint_download.py 599-603 and 617-623: self.get_items() is called
\* again and the row is looked up by name in what it returns; the handle is of
\* the page as it is now, whatever the age of the opening listing.
relocate(listing) == 0

\* main.py 735-770 and 451-462: the row is looked up with driver.find_element
\* (by the XPath in file_info, checked against the name) or
\* driver.find_elements (by name) when the action is due.
oc_locate(listing) == 0

\* The handles after a download trigger or a click on a row with handle `age`.
Act(age) == [listing |-> 1, acted |-> age, cached |-> handle.listing]

\* The handles after a step into a folder with handle `age`: the new page is
\* listed.
Enter(age) == [listing |-> 0, acted |-> age, cached |-> handle.listing]

\* The handles after a navigation that uses none of them.
Navigated == [handle EXCEPT !.listing = 1]

\* SharePointDownloader.__init__: the state is loaded, left-overs are cleaned.
SPStart ==
  /\ program = "sharepoint"
  /\ pc = "off"
  /\ runs < MaxRuns
  /\ failed_files' = load_state(state_file)
  /\ fs' = cleanup_incomplete_downloads(fs)
  /\ download_stats' = ZeroStats
  /\ pc' = "access"
  /\ runs' = runs + 1
  /\ last_op' = [op |-> "load_state"]
  /\ triggered' = FALSE
  /\ UNCHANGED <<program, remote, cwd, monitor, samples, handle, now, state_file, io_faulty, todo, pending, groups,
                 attempts, faulted, oc_vars>>

\* access_share_link: on failure main closes the driver and ends.
SPAccess ==
  /\ pc = "access"
  /\ \E opened \in BOOLEAN :
       IF opened
       THEN /\ pc' = "traverse" /\ todo' = remote
            /\ UNCHANGED <<failed_files, faulted>>
       ELSE /\ pc' = "off" /\ todo' = <<>> /\ failed_files' = <<>>
            /\ faulted' = TRUE
  /\ last_op' = [op |-> IF pc' = "off" THEN "access_failed" ELSE "none"]
  /\ cwd' = RootPath
  /\ handle' = NoHandle
  /\ UNCHANGED <<program, remote, monitor, samples, fs, now, state_file, io_faulty, pending, groups,
                 download_stats, attempts, runs, triggered, oc_vars>>

\* What a step leaves of the history variables when it makes no store call
\* and meets no failure.
Quiet == last_op' = NoOp /\ UNCHANGED <<attempts, runs, faulted, triggered>>

\* The three ways traverse_and_download and retry_failed_downloads end the
\* handling of one file: it is marked successful, it is recorded as failed, or
\* the store is left alone.
SPMarkSuccess(it, w, by, present) ==
  LET s == mark_success(failed_files, state_file, it.name, it.path, w) IN
  /\ failed_files' = s.mem
  /\ state_file' = s.disk
  /\ last_op' = [op |-> "mark_success", name |-> it.name, path |-> it.path,
                 by |-> by, present |-> present, saved |-> w,
                 had |-> HasRecord(failed_files, it.name, it.path)]

SPAddFailed(it, w, by) ==
  LET s == add_failed(failed_files, state_file, it.name, it.path, w) IN
  /\ failed_files' = s.mem
  /\ state_file' = s.disk
  /\ last_op' = [op |-> "add_failed", name |-> it.name, path |-> it.path,
                 by |-> by, present |-> FALSE, saved |-> w,
                 had |-> HasRecord(failed_files, it.name, it.path)]

\* traverse_and_download, one file of the current folder (lines 589-612).
SPTraverseFile ==
  /\ pc = "traverse"
  /\ todo # <<>>
  /\ Head(todo).kind = "file"
  /\ LET it == Item(Head(todo)) IN
     \E w \in WriteOutcomes :
       \/ /\ Exists(fs, LocalPath(it.path, it.name))
          /\ SPMarkSuccess(it, w, "traverse", TRUE)
          /\ download_stats' = [download_stats EXCEPT !.existing_files = @ + 1]
          /\ UNCHANGED <<fs, attempts, faulted, triggered, handle>>
       \/ /\ ~Exists(fs, LocalPath(it.path, it.name))
          /\ Retries(failed_files, it.name, it.path) < MaxAttempts
          \* the row is not found again in the fresh listing (lines 610-612)
          /\ SPAddFailed(it, w, "traverse")
          /\ faulted' = TRUE
          /\ UNCHANGED <<fs, download_stats, attempts, triggered, handle>>
       \/ /\ ~Exists(fs, LocalPath(it.path, it.name))
          /\ attempts[it] < MaxAttempts
          /\ it.name \in Files(cwd)
          /\ \E outcome \in DownloadOutcomes :
               LET d == sp_download_file(fs, it, cwd, outcome, now) IN
               /\ fs' = d.fs
               /\ IF d.ok
                  THEN /\ SPMarkSuccess(it, w, "traverse", FALSE)
                       /\ download_stats' = [download_stats EXCEPT !.downloaded = @ + 1]
                       /\ UNCHANGED faulted
                  ELSE /\ SPAddFailed(it, w, "traverse")
                       /\ download_stats' = [download_stats EXCEPT !.failed = @ + 1]
                       /\ faulted' = TRUE
          /\ attempts' = [attempts EXCEPT ![it] = @ + 1]
          /\ triggered' = TRUE
          /\ handle' = Act(relocate(handle.listing))
  /\ todo' = Tail(todo)
  /\ UNCHANGED <<program, remote, cwd, monitor, samples, now, io_faulty, pc, pending, groups, runs, oc_vars>>

RECURSIVE SkipFolder(_, _)
\* The steps left once the steps of folder `name` are dropped, up to and
\* including the way back out of it.
SkipFolder(steps, name) ==
  IF steps = <<>> THEN <<>>
  ELSE IF Head(steps).kind = "leave" /\ Head(steps).name = name THEN Tail(steps)
  ELSE SkipFolder(Tail(steps), name)

\* traverse_and_download, one sub-folder (lines 615-646): the step into it and,
\* after the recursive call, the step back.  Nothing checks where the browser
\* is after either.
SPTraverseFolder ==
  /\ pc = "traverse"
  /\ todo # <<>>
  /\ Head(todo).kind \in {"enter", "leave"}
  /\ IF Head(todo).kind = "enter"
     THEN \/ \* the row of the folder is found in the listing and clicked
             /\ Head(todo).name \in Folders(cwd)
             /\ cwd' = Append(cwd, Head(todo).name)
             /\ handle' = Enter(relocate(handle.listing))
             /\ todo' = Tail(todo)
             /\ UNCHANGED faulted
          \/ \* the row is not found, or the click raises: the folder is passed
             \* over (the exception is logged)
             /\ cwd' = cwd
             /\ todo' = SkipFolder(Tail(todo), Head(todo).name)
             /\ UNCHANGED handle
             /\ faulted' = TRUE
     ELSE \/ \* the way back: the last but one breadcrumb (or the browser's
             \* back button)
             /\ cwd' = Parent(cwd)
             /\ handle' = Navigated
             /\ todo' = Tail(todo)
             /\ UNCHANGED faulted
          \/ \* the click raises: the error is logged, the loop goes on
             /\ cwd' = cwd
             /\ todo' = Tail(todo)
             /\ handle' = Navigated
             /\ faulted' = TRUE
  /\ last_op' = NoOp
  /\ UNCHANGED <<program, remote, monitor, samples, fs, now, pc, download_stats, sp_vars, oc_vars,
                 attempts, runs, triggered>>

RECURSIVE GroupByPath(_, _)
\* retry_failed_downloads, lines 657-663: the names of the failed files grouped
\* by path, the groups in the order their path first appears.
GroupByPath(failed, by_path) ==
  IF failed = <<>> THEN by_path
  ELSE LET f == Head(failed)
           known == {i \in 1..Len(by_path) : by_path[i].path = f.path}
       IN IF known = {}
          THEN GroupByPath(Tail(failed),
                 Append(by_path, [path |-> f.path, names |-> <<f.name>>]))
          ELSE LET i == CHOOSE j \in known : TRUE IN
               GroupByPath(Tail(failed),
                 [by_path EXCEPT ![i].names = Append(@, f.name)])

\* main, lines 733-738: after the traversal get_failed_files() decides whether
\* the retry round runs; retry_failed_downloads groups what it returns.
SPAfterTraverse ==
  /\ pc = "traverse"
  /\ todo = <<>>
  /\ pending' = get_failed_files(failed_files)
  /\ IF pending' # <<>>
     THEN pc' = "navigate" /\ groups' = GroupByPath(pending', <<>>)
     ELSE pc' = "final" /\ groups' = <<>>
  /\ last_op' = [op |-> "get_failed_files"]
  /\ UNCHANGED <<program, remote, cwd, monitor, samples, handle, fs, now, todo, download_stats, failed_files,
                 state_file, io_faulty, oc_vars, attempts, runs, faulted,
                 triggered>>

\* retry_failed_downloads, lines 665-697: the share link is opened again and
\* the folders of the group's path are entered one by one.  When a folder is
\* not found or cannot be entered, `break` leaves the loop over the parts and
\* the files of the group are retried in the folder reached so far.
SPRetryNavigate ==
  /\ program = "sharepoint"
  /\ pc = "navigate"
  /\ groups # <<>>
  /\ \E reached \in 0..Len(Head(groups).path) :
       /\ cwd' = SubSeq(Head(groups).path, 1, reached)
       /\ faulted' = (faulted \/ reached < Len(Head(groups).path))
  /\ pc' = "retry"
  /\ handle' = Navigated
  /\ last_op' = NoOp
  /\ UNCHANGED <<program, remote, monitor, samples, fs, now, todo, download_stats,
                 sp_vars, oc_vars, attempts, runs, triggered>>

\* retry_failed_downloads, one file of the current group (lines 700-719).
SPRetryFile ==
  /\ program = "sharepoint"
  /\ pc = "retry"
  /\ groups # <<>>
  /\ Head(groups).names # <<>>
  /\ LET it == [name |-> Head(Head(groups).names), path |-> Head(groups).path] IN
     \E w \in WriteOutcomes :
       \/ /\ Exists(fs, LocalPath(it.path, it.name))
          /\ SPMarkSuccess(it, w, "retry", TRUE)
          /\ UNCHANGED <<fs, download_stats, attempts, faulted, triggered, handle>>
       \/ /\ ~Exists(fs, LocalPath(it.path, it.name))
          \* the row is not found in the listing: the record stays as it is
          /\ last_op' = NoOp
          /\ faulted' = TRUE
          /\ UNCHANGED <<fs, failed_files, state_file, download_stats, attempts,
                         triggered, handle>>
       \/ /\ ~Exists(fs, LocalPath(it.path, it.name))
          /\ attempts[it] < MaxAttempts
          /\ it.name \in Files(cwd)
          /\ \E outcome \in DownloadOutcomes :
               LET d == sp_download_file(fs, it, cwd, outcome, now) IN
               /\ fs' = d.fs
               /\ IF d.ok
                  THEN /\ SPMarkSuccess(it, w, "retry", FALSE)
                       /\ download_stats' = [download_stats EXCEPT !.retried = @ + 1]
                       /\ UNCHANGED faulted
                  ELSE /\ SPAddFailed(it, w, "retry")
                       /\ UNCHANGED download_stats
                       /\ faulted' = TRUE
          /\ attempts' = [attempts EXCEPT ![it] = @ + 1]
          /\ triggered' = TRUE
          /\ handle' = Act(relocate(handle.listing))
  /\ groups' = [groups EXCEPT ![1].names = Tail(@)]
  /\ UNCHANGED <<program, remote, cwd, monitor, samples, now, io_faulty, pc, todo, pending, runs, oc_vars>>

\* retry_failed_downloads: the current group is done, the next one starts.
SPRetryNextGroup ==
  /\ program = "sharepoint"
  /\ pc = "retry"
  /\ groups # <<>>
  /\ Head(groups).names = <<>>
  /\ groups' = Tail(groups)
  /\ pc' = IF Tail(groups) # <<>> THEN "navigate" ELSE "retry"
  /\ Quiet
  /\ UNCHANGED <<program, remote, cwd, monitor, samples, handle, fs, now, todo, download_stats, failed_files,
                 state_file, io_faulty, pending, oc_vars>>

\* retry_failed_downloads returns after the last group.
SPAfterRetry ==
  /\ program = "sharepoint"
  /\ pc = "retry"
  /\ groups = <<>>
  /\ pc' = "final"
  /\ Quiet
  /\ UNCHANGED <<program, remote, cwd, monitor, samples, handle, fs, now, todo, download_stats, sp_vars, oc_vars>>

\* main, line 744: remaining_failed = get_failed_files()
SPFinalCheck ==
  /\ pc = "final"
  /\ pending' = get_failed_files(failed_files)
  /\ pc' = "report"
  /\ last_op' = [op |-> "get_failed_files"]
  /\ UNCHANGED <<program, remote, cwd, monitor, samples, handle, fs, now, todo, download_stats, failed_files,
                 state_file, io_faulty, groups, oc_vars, attempts, runs,
                 faulted, triggered>>

\* main, lines 745-756: the remaining failures are listed, or the state is
\* cleared; then the process ends.
SPFinish ==
  /\ pc = "report"
  /\ program = "sharepoint"
  /\ IF pending # <<>>
     THEN /\ UNCHANGED <<state_file, attempts>>
          /\ last_op' = Reported("report", pending, FALSE)
     ELSE /\ state_file' = clear_state(failed_files, state_file).disk
          /\ attempts' = [i \in RemoteFiles |-> 0]
          /\ last_op' = Reported("clear_state", <<>>, TRUE)
  /\ failed_files' = <<>>
  /\ pending' = <<>>
  /\ pc' = "off"
  /\ cwd' = RootPath
  /\ UNCHANGED <<program, remote, monitor, samples, handle, fs, now, todo, download_stats, io_faulty, groups,
                 oc_vars, runs, faulted, triggered>>

\* The process is killed between two operations: its memory is lost, the disk
\* stays as it is.
SPKill ==
  /\ program = "sharepoint"
  /\ pc # "off"
  /\ pc' = "off"
  /\ KilledDownload
  /\ failed_files' = <<>>
  /\ todo' = <<>>
  /\ pending' = <<>>
  /\ groups' = <<>>
  /\ last_op' = [op |-> "kill"]
  /\ faulted' = TRUE
  /\ cwd' = RootPath
  /\ UNCHANGED <<program, remote, monitor, samples, handle, now, download_stats, state_file, io_faulty,
                 oc_vars, attempts, runs, triggered>>

-----------------------------------------------------------------------------
(* Specification of the SharePoint process, restarts included *)

\* The state before any process has run on an empty download directory.
FreshProcess ==
  /\ fs = <<>>
  /\ now = 0
  /\ pc = "off"
  /\ todo = <<>>
  /\ download_stats = ZeroStats
  /\ failed_files = <<>>
  /\ state_file = NoFile
  /\ pending = <<>>
  /\ groups = <<>>
  /\ cwd = RootPath
  /\ monitor = NoMonitor
  /\ samples = <<>>
  /\ handle = NoHandle
  /\ cycle_count = 0
  /\ oc_failed_files = <<>>
  /\ retry_list = <<>>
  /\ retry_failed_files = <<>>
  /\ attempts = [i \in RemoteFiles |-> 0]
  /\ last_op = NoOp
  /\ runs = 0
  /\ faulted = FALSE
  /\ triggered = FALSE

\* The same, on a disk whose writes succeed.
Fresh == FreshProcess /\ io_faulty = FALSE

Init == program = "sharepoint" /\ remote = TraverseOrder /\ Fresh

Next ==
  \/ SPStart
  \/ SPAccess
  \/ SPTraverseFile
  \/ SPTraverseFolder
  \/ SPAfterTraverse
  \/ SPRetryNavigate
  \/ SPRetryFile
  \/ SPRetryNextGroup
  \/ SPAfterRetry
  \/ SPFinalCheck
  \/ SPFinish
  \/ SPKill

Spec == Init /\ [][Next]_vars

\* The SharePoint process on a disk where a write of the state file can fail
\* (disk full, directory not writable).
FaultyInit ==
  program = "sharepoint" /\ remote = TraverseOrder /\ FreshProcess /\ io_faulty = TRUE

FaultySpec == FaultyInit /\ [][Next]_vars


-----------------------------------------------------------------------------
(* main.py: the ownCloud run *)

\* config.MAX_FULL_CYCLES (src/config.py:27 sets 10); the model runs a
\* scaled-down configuration.
max_cycles == 2

Min(a, b) == IF a < b THEN a ELSE b

\* move_file_to_directory without the comparison of sizes.
oc_move_without_size_test(f, source, filename, target_dir, t) ==
  LET dest == LocalPath(target_dir, filename) IN
  IF ~Exists(f, source) THEN [fs |-> f, ok |-> FALSE]
  ELSE IF Exists(f, dest)
       THEN [fs |-> Rename(f, source,
                           LocalPath(target_dir, StampedName(filename, t))),
             ok |-> TRUE]
       ELSE [fs |-> Rename(f, source, dest), ok |-> TRUE]

\* main.move_file_to_directory(source_path, filename, target_dir) at clock
\* value t: the new file system and the result.  An exception (the source is
\* missing) is caught and gives False.  The source is not compared with the
\* destination.
oc_move_file_to_directory(f, source, filename, target_dir, t) ==
  LET dest == LocalPath(target_dir, filename) IN
  IF ~Exists(f, source) THEN [fs |-> f, ok |-> FALSE]
  ELSE IF Exists(f, dest)
       THEN IF f[source].size = f[dest].size
            THEN [fs |-> Remove(f, source), ok |-> TRUE]
            ELSE [fs |-> Rename(f, source,
                                LocalPath(target_dir, StampedName(filename, t))),
                  ok |-> TRUE]
       ELSE [fs |-> Rename(f, source, dest), ok |-> TRUE]

IsPrefix(a, b) == Len(a) <= Len(b) /\ SubSeq(b, 1, Len(a)) = a

\* The characters of a stem.
StemChars(stem) == IF stem = "xy" THEN <<"x", "y">> ELSE <<stem>>

\* f.startswith(<the part of filename before its extension>): the stem of f
\* begins with the stem of filename, and when filename carries "_<n>" suffixes
\* f has the same stem and begins with these suffixes.
StartsWith(f_name, filename) ==
  IF filename.tag = <<>>
  THEN IsPrefix(StemChars(filename.stem), StemChars(f_name.stem))
  ELSE f_name.stem = filename.stem /\ IsPrefix(filename.tag, f_name.tag)

\* main.monitor_download, line 624: a name of the landing directory matches
\* when it contains filename or starts with filename.split('.')[0]; the
\* extension plays no part in the second test.
oc_matches(f_name, filename) ==
  \/ f_name = filename
  \/ f_name = InProgress(filename)
  \/ StartsWith(f_name, filename)

\* main.monitor_download once the browser has deposited the complete file of
\* `item` under its own name in the landing directory (the download root):
\* complete_files of lines 656-659, in the order os.listdir gives them.
oc_complete_files(f, filename) ==
  {p \in DOMAIN f : /\ p.dir = RootPath /\ oc_matches(p.name, filename)
                    /\ ~p.name.cr /\ p.name.ext # "tmp"}

\* main.monitor_download, line 628: the matching names that end in
\* ".crdownload".
oc_crdownload_files(f, filename) ==
  {p \in DOMAIN f : p.dir = RootPath /\ oc_matches(p.name, filename) /\ p.name.cr}

\* The files monitor_download can end up relocating for `filename` (lines
\* 626-667): while a matching .crdownload is listed only those are looked at,
\* and one whose size stayed the same over three checks is taken; else a
\* complete match is taken.  Which one is first depends on os.listdir's order.
oc_candidates(f, filename) ==
  IF oc_crdownload_files(f, filename) # {}
  THEN oc_crdownload_files(f, filename)
  ELSE oc_complete_files(f, filename)

\* One attempt of download_and_monitor_with_retry / retry_download that the
\* environment lets succeed: the file is deposited, monitor_download takes
\* complete_files[0] (`first`) and relocates it under the expected name.
oc_download_ok(f, item, first, t) ==
  IF first.name.cr
  THEN \* lines 640-646: the suffix is removed, then the file is relocated
       LET temp_path == LocalPath(RootPath, [first.name EXCEPT !.cr = FALSE]) IN
       oc_move_file_to_directory(Rename(f, first, temp_path), temp_path,
                                 item.name, item.path, t)
  ELSE oc_move_file_to_directory(f, first, item.name, item.path, t)

\* The landing directory once the browser has deposited the file whose row
\* was clicked: the one named as the item in the folder the browser shows.
Deposited(f, item, shown) ==
  WriteFile(f, LocalPath(RootPath, item.name),
            RemoteContent([name |-> item.name, path |-> shown]))

\* download_and_monitor_with_retry and retry_download (both loop over
\* range(max_retries)): `failures` attempts fail, and unless that uses up the
\* budget the next one succeeds.  The new file system, the result and the
\* number of attempts made.
oc_download_with_retry(f, item, shown, failures, first, t) ==
  IF failures >= max_retries
  THEN [fs |-> f, ok |-> FALSE, tries |-> max_retries]
  ELSE LET d == oc_download_ok(Deposited(f, item, shown), item, first, t) IN
       [fs |-> d.fs, ok |-> d.ok, tries |-> failures + 1]

\* What download_and_monitor_with_retry / retry_download returned for an item
\* (monitor_download's result in the attempt that ended the loop).
OCDownloaded(it, ok) ==
  [op |-> "download", name |-> it.name, path |-> it.path, ok |-> ok]

OCZeroStats == [total_files |-> 0, existing_files |-> 0, downloaded |-> 0,
                failed |-> 0]

\* The interpreter starts main.py: the module globals are initialised.
OCStart ==
  /\ program = "owncloud"
  /\ pc = "off"
  /\ runs < MaxRuns
  /\ pc' = "login"
  /\ runs' = runs + 1
  /\ triggered' = FALSE
  /\ download_stats' = OCZeroStats
  /\ cycle_count' = 0
  /\ oc_failed_files' = <<>>
  /\ retry_list' = <<>>
  /\ retry_failed_files' = <<>>
  /\ last_op' = NoOp
  /\ UNCHANGED <<program, remote, cwd, monitor, samples, handle, fs, now, todo, sp_vars, attempts, faulted>>

\* main, lines 1340-1344: a failed login ends the run.
OCLogin ==
  /\ pc = "login"
  /\ \E logged_in \in BOOLEAN :
       IF logged_in THEN pc' = "cycle" /\ UNCHANGED faulted
                    ELSE pc' = "off" /\ faulted' = TRUE
  /\ last_op' = [op |-> IF pc' = "off" THEN "login_failed" ELSE "none"]
  /\ cwd' = RootPath
  /\ handle' = NoHandle
  /\ UNCHANGED <<program, remote, monitor, samples, fs, now, todo, download_stats, sp_vars, oc_vars,
                 attempts, runs, triggered>>

\* main, line 1360, with "<=" for "<".
cycle_loop_condition_le(count) == count <= max_cycles

\* main, line 1360: while cycle_count < max_cycles
cycle_loop_condition(count) == count < max_cycles

\* generate_failure_report(failed_files): the items written to
\* download_failures.txt, one line each, in the order of the list.
generate_failure_report(failed) == failed

\* main, lines 1360-1377: the loop condition, and the start of a pass.
OCBeginCycle ==
  /\ pc = "cycle"
  /\ IF cycle_loop_condition(cycle_count)
     THEN /\ cycle_count' = cycle_count + 1
          /\ oc_failed_files' = <<>>
          /\ download_stats' = OCZeroStats
          /\ todo' = remote
          /\ pc' = "scan"
     ELSE /\ pc' = "report"
          /\ UNCHANGED <<cycle_count, oc_failed_files, download_stats, todo>>
  /\ Quiet
  /\ UNCHANGED <<program, remote, cwd, monitor, samples, handle, fs, now, sp_vars, retry_list, retry_failed_files>>

\* scan_directory, one file of the current folder (lines 398-439).
OCScanFile ==
  /\ pc = "scan"
  /\ todo # <<>>
  /\ Head(todo).kind = "file"
  /\ LET it == Item(Head(todo)) IN
     \/ /\ Exists(fs, LocalPath(it.path, it.name))
        /\ download_stats' = [download_stats EXCEPT !.total_files = @ + 1,
                                                    !.existing_files = @ + 1]
        /\ last_op' = NoOp
        /\ UNCHANGED <<fs, oc_failed_files, attempts, faulted, triggered, handle>>
     \/ /\ ~Exists(fs, LocalPath(it.path, it.name))
        /\ \E failures \in 0..max_retries :
           \E first \in oc_candidates(Deposited(fs, it, cwd), it.name) :
             LET d == oc_download_with_retry(fs, it, cwd, failures, first, now) IN
             /\ it.name \notin Files(cwd) => failures = max_retries
             /\ fs' = d.fs
             /\ last_op' = OCDownloaded(it, d.ok)
             /\ attempts' = [attempts EXCEPT ![it] = Min(@ + d.tries, MaxAttempts)]
             /\ faulted' = (faulted \/ failures > 0)
             /\ IF d.ok
                THEN /\ download_stats' =
                          [download_stats EXCEPT !.total_files = @ + 1,
                                                 !.downloaded = @ + 1]
                     /\ UNCHANGED oc_failed_files
                ELSE /\ download_stats' =
                          [download_stats EXCEPT !.total_files = @ + 1,
                                                 !.failed = @ + 1]
                     /\ oc_failed_files' = Append(oc_failed_files, it)
        /\ triggered' = TRUE
        /\ handle' = IF it.name \in Files(cwd)
                      THEN Act(oc_locate(handle.listing)) ELSE handle
  /\ todo' = Tail(todo)
  /\ UNCHANGED <<program, remote, cwd, monitor, samples, now, pc, sp_vars, cycle_count, retry_list,
                 retry_failed_files, runs>>

\* scan_directory, one sub-folder (lines 442-493): the step into it and, after
\* the recursive call, navigate_back, whose result is not looked at.
OCScanFolder ==
  /\ pc = "scan"
  /\ todo # <<>>
  /\ Head(todo).kind \in {"enter", "leave"}
  /\ IF Head(todo).kind = "enter"
     THEN \/ \* the row of the folder is found in the listing and clicked
             /\ Head(todo).name \in Folders(cwd)
             /\ cwd' = Append(cwd, Head(todo).name)
             /\ handle' = Enter(oc_locate(handle.listing))
             /\ todo' = Tail(todo)
             /\ UNCHANGED faulted
          \/ \* the row is not found, or the click raises: the folder is passed
             \* over (the exception is logged)
             /\ cwd' = cwd
             /\ todo' = SkipFolder(Tail(todo), Head(todo).name)
             /\ UNCHANGED handle
             /\ faulted' = TRUE
     ELSE \/ \* the way back: the last but one breadcrumb (or the browser's
             \* back button)
             /\ cwd' = Parent(cwd)
             /\ handle' = Navigated
             /\ todo' = Tail(todo)
             /\ UNCHANGED faulted
          \/ \* the click raises: the error is logged, the loop goes on
             /\ cwd' = cwd
             /\ todo' = Tail(todo)
             /\ handle' = Navigated
             /\ faulted' = TRUE
  /\ last_op' = NoOp
  /\ UNCHANGED <<program, remote, monitor, samples, fs, now, pc, download_stats, sp_vars, oc_vars,
                 attempts, runs, triggered>>

\* main, lines 1379-1387: the scan is over; the retry loop starts when some
\* file failed.
OCAfterScan ==
  /\ pc = "scan"
  /\ todo = <<>>
  /\ IF oc_failed_files # <<>>
     THEN pc' = "retry" /\ retry_list' = oc_failed_files
     ELSE pc' = "evaluate" /\ retry_list' = <<>>
  /\ retry_failed_files' = <<>>
  /\ Quiet
  /\ UNCHANGED <<program, remote, cwd, monitor, samples, handle, fs, now, todo, download_stats, sp_vars, cycle_count,
                 oc_failed_files>>

\* download_file, lines 1192-1196: for an item below the root
\* navigate_to_directory is called and its result is not looked at.  It
\* returns at once when it takes the browser to be there already, else it goes
\* back to the root and enters the parts of the path, passing over a part it
\* does not find; an exception ends it where it is.
oc_navigate(shown, path) ==
  IF path = RootPath THEN {shown}
  ELSE {shown} \cup {SubSeq(path, 1, reached) : reached \in 0..Len(path)}

\* main, lines 1388-1406: one file of the retry loop.
OCRetryFile ==
  /\ program = "owncloud"
  /\ pc = "retry"
  /\ retry_list # <<>>
  /\ LET it == Head(retry_list) IN
     \/ /\ Exists(fs, LocalPath(it.path, it.name))
        /\ last_op' = [op |-> "skip", name |-> it.name, path |-> it.path]
        /\ UNCHANGED <<cwd, fs, retry_failed_files, attempts, faulted, triggered,
                       handle>>
     \/ /\ ~Exists(fs, LocalPath(it.path, it.name))
        /\ \E failures \in 0..max_retries, shown \in oc_navigate(cwd, it.path) :
           \E first \in oc_candidates(Deposited(fs, it, shown), it.name) :
             LET d == oc_download_with_retry(fs, it, shown, failures, first, now) IN
             /\ cwd' = shown
             /\ handle' = IF it.name \in Files(shown)
                           THEN Act(oc_locate(1)) ELSE Navigated
             /\ it.name \notin Files(shown) => failures = max_retries
             /\ fs' = d.fs
             /\ last_op' = OCDownloaded(it, d.ok)
             /\ attempts' = [attempts EXCEPT ![it] = Min(@ + d.tries, MaxAttempts)]
             /\ faulted' = (faulted \/ failures > 0 \/ shown # it.path)
             /\ IF d.ok
                THEN UNCHANGED retry_failed_files
                ELSE retry_failed_files' = Append(retry_failed_files, it)
        /\ triggered' = TRUE
  /\ retry_list' = Tail(retry_list)
  /\ UNCHANGED <<program, remote, monitor, samples, now, pc, todo, download_stats, sp_vars, cycle_count,
                 oc_failed_files, runs>>

\* main, line 1408: failed_files = retry_failed_files
OCAfterRetry ==
  /\ program = "owncloud"
  /\ pc = "retry"
  /\ retry_list = <<>>
  /\ oc_failed_files' = retry_failed_files
  /\ pc' = "evaluate"
  /\ Quiet
  /\ UNCHANGED <<program, remote, cwd, monitor, samples, handle, fs, now, todo, download_stats, sp_vars, cycle_count,
                 retry_list, retry_failed_files>>

\* main, line 1422, with "or" for "and".
all_files_done_or(failed, stats) == failed = <<>> \/ stats.downloaded = 0

\* main, line 1422: not failed_files and download_stats['downloaded'] == 0
all_files_done(failed, stats) == failed = <<>> /\ stats.downloaded = 0

\* main, lines 1420-1439: the loop ends when nothing failed and nothing was
\* downloaded in this pass; else it goes back to the loop condition (after the
\* wait and the new login, whose failure is only logged).
OCEvaluate ==
  /\ pc = "evaluate"
  /\ IF all_files_done(oc_failed_files, download_stats)
     THEN pc' = "report"
     ELSE pc' = "cycle"
  /\ Quiet
  /\ cwd' = RootPath
  /\ handle' = NoHandle
  /\ UNCHANGED <<program, remote, monitor, samples, fs, now, todo, download_stats, sp_vars, oc_vars>>

\* main, lines 1441-1458: the report, and the end of the process.
OCReport ==
  /\ pc = "report"
  /\ program = "owncloud"
  /\ pc' = "off"
  /\ last_op' = Reported("report", generate_failure_report(oc_failed_files),
                         oc_failed_files = <<>>)
  /\ cwd' = RootPath
  /\ UNCHANGED <<program, remote, monitor, samples, handle, fs, now, todo, download_stats, sp_vars, oc_vars,
                 attempts, runs, faulted, triggered>>

\* The process is killed between two operations.
OCKill ==
  /\ program = "owncloud"
  /\ pc # "off"
  /\ pc' = "off"
  /\ KilledDownload
  /\ todo' = <<>>
  /\ retry_list' = <<>>
  /\ last_op' = [op |-> "kill"]
  /\ faulted' = TRUE
  /\ cwd' = RootPath
  /\ UNCHANGED <<program, remote, monitor, samples, handle, now, download_stats, sp_vars, cycle_count,
                 oc_failed_files, retry_failed_files, attempts, runs, triggered>>

\* Specification of the ownCloud process, restarts included.
OCInit == program = "owncloud" /\ remote = TraverseOrder /\ Fresh

OCNext ==
  \/ OCStart
  \/ OCLogin
  \/ OCBeginCycle
  \/ OCScanFile
  \/ OCScanFolder
  \/ OCAfterScan
  \/ OCRetryFile
  \/ OCAfterRetry
  \/ OCEvaluate
  \/ OCReport
  \/ OCKill

OCSpec == OCInit /\ [][OCNext]_vars

-----------------------------------------------------------------------------
(* Properties of the retry store *)

\* C1: counting every download attempt of an item made by the traversal pass or
\* by the retry round, no item is attempted more than max_retries times without
\* a clear_state() in between.
BoundedRetries == \A i \in RemoteFiles : attempts[i] <= max_retries

\* C5: in every step, a record that exists before and after the step (in
\* memory, and in the state file across restarts) does not lose retries; a
\* record leaves the state file only through mark_success or clear_state.
RetryMonotonicity ==
  [][\A i \in RemoteFiles :
       /\ (HasRecord(failed_files, i.name, i.path)
            /\ HasRecord(failed_files', i.name, i.path))
          => Retries(failed_files', i.name, i.path)
               >= Retries(failed_files, i.name, i.path)
       /\ (HasRecord(Persisted(state_file), i.name, i.path)
            /\ HasRecord(Persisted(state_file'), i.name, i.path))
          => Retries(Persisted(state_file'), i.name, i.path)
               >= Retries(Persisted(state_file), i.name, i.path)
       /\ (HasRecord(Persisted(state_file), i.name, i.path)
            /\ ~HasRecord(Persisted(state_file'), i.name, i.path))
          => last_op'.op \in {"mark_success", "clear_state"}]_vars

\* A record was incremented after the process had been restarted.
RetryMonotonicityWitness ==
  /\ runs >= 2
  /\ last_op.op = "add_failed"
  /\ Retries(failed_files, last_op.name, last_op.path) >= 2
  /\ Retries(Persisted(state_file), last_op.name, last_op.path) >= 2

\* C6: while the process runs, after every operation the state file stands for
\* exactly the records in memory, so a kill between two operations loses none.
WriteThrough == (pc # "off") => Persisted(state_file) = failed_files

\* The process was killed and restarted, and the records came back.
WriteThroughWitness ==
  /\ runs >= 2
  /\ last_op.op = "load_state"
  /\ failed_files # <<>>
  /\ \E i \in 1..Len(failed_files) : failed_files[i].retries >= 2

\* C7: add_failed(name, path) increments the retries of an existing record,
\* else inserts one with retries = 1; the other records stay, and the state
\* file holds the new records when the call returns.
RecordFailureEffect ==
  [][(last_op'.op = "add_failed") =>
       LET n == last_op'.name
           p == last_op'.path
       IN /\ HasRecord(failed_files, n, p)
               => /\ Retries(failed_files', n, p) = Retries(failed_files, n, p) + 1
                  /\ Len(failed_files') = Len(failed_files)
          /\ ~HasRecord(failed_files, n, p)
               => /\ Retries(failed_files', n, p) = 1
                  /\ Len(failed_files') = Len(failed_files) + 1
          /\ \A r \in Range(failed_files) :
               KeepsRecord(r, n, p) => r \in Range(failed_files')
          /\ Persisted(state_file') = failed_files']_vars

\* add_failed has just incremented an existing record.
RecordFailureWitness ==
  /\ last_op.op = "add_failed"
  /\ Retries(failed_files, last_op.name, last_op.path) = 2
  /\ Persisted(state_file) = failed_files

\* C8: after mark_success(name, path) the store holds no record with that
\* identity, the other records stay, and the state file holds the new records.
RecordSuccessEffect ==
  [][(last_op'.op = "mark_success") =>
       LET n == last_op'.name
           p == last_op'.path
       IN /\ ~HasRecord(failed_files', n, p)
          /\ \A r \in Range(failed_files) :
               KeepsRecord(r, n, p) <=> r \in Range(failed_files')
          /\ state_file'.present
          /\ Persisted(state_file') = failed_files']_vars

\* mark_success has just removed a record that existed.
RecordSuccessWitness ==
  /\ last_op.op = "mark_success"
  /\ last_op.had
  /\ ~HasRecord(failed_files, last_op.name, last_op.path)

\* C9: get_failed_files() returns exactly the records with retries below
\* max_retries, in their order, and leaves the store and the file as they are.
PendingRetriesExact ==
  [][(last_op'.op = "get_failed_files") =>
       /\ failed_files' = failed_files
       /\ state_file' = state_file
       /\ \A r \in Range(failed_files) :
            (r \in Range(pending')) <=> (r.retries < max_retries)
       /\ Range(pending') \subseteq Range(failed_files)
       /\ Len(pending') = Cardinality(Range(pending'))]_vars

\* get_failed_files returned some records and left an exhausted one out.
PendingRetriesWitness ==
  /\ last_op.op = "get_failed_files"
  /\ pending # <<>>
  /\ \E i \in 1..Len(failed_files) : failed_files[i].retries = max_retries
  /\ \E i \in 1..Len(failed_files) : failed_files[i].retries = max_retries - 1

\* C10: a record at or above max_retries whose file is still missing locally
\* stays in the state file through the retry round and the end of the run.
ExhaustedStaysRecorded ==
  [][\A i \in RemoteFiles :
       (/\ pc \in {"navigate", "retry", "final", "report"}
        /\ last_op'.op # "kill"
        /\ Retries(Persisted(state_file), i.name, i.path) >= max_retries
        /\ ~Exists(fs', LocalPath(i.path, i.name)))
       => HasRecord(Persisted(state_file'), i.name, i.path)]_vars

\* C11: clear_state() empties the records in memory and deletes the state
\* file, and it is called only at the end of a pass that leaves no pending
\* failure and made no download.
ClearOnlyAtConvergence ==
  [][(last_op'.op = "clear_state") =>
       /\ state_file' = NoFile
       /\ failed_files' = <<>>
       /\ get_failed_files(failed_files) = <<>>
       /\ download_stats.downloaded = 0
       /\ download_stats.retried = 0]_vars

\* C12: when the monitor has reported a completed download (main.py:
\* download_and_monitor_with_retry returned True; sharepoint_download.py:
\* download_file returned True), a file holding the downloaded content is in
\* the destination folder.
RelocatedWhenTrue ==
  LET done == \/ last_op.op = "download" /\ last_op.ok
              \/ last_op.op = "mark_success" /\ ~last_op.present
  IN done => \E p \in DOMAIN fs :
               /\ p.dir = last_op.path
               /\ fs[p] = RemoteContent([name |-> last_op.name, path |-> last_op.path])

-----------------------------------------------------------------------------
(* Properties of the pass loop of main.py *)

\* C13: at the end of a pass the run terminates successfully exactly when no
\* failure is pending and nothing was downloaded in the pass; in every other
\* case with cycle_count < max_cycles a further pass is started.
EvaluateStep ==
  [][(last_op'.op # "kill") =>
       /\ (pc = "evaluate") =>
            IF oc_failed_files = <<>> /\ download_stats.downloaded = 0
            THEN pc' = "report" ELSE pc' = "cycle"
       /\ (pc = "cycle" /\ cycle_count < max_cycles) => pc' = "scan"
       /\ (pc \in {"evaluate", "cycle"} /\ pc' = "report" /\ oc_failed_files = <<>>)
            => download_stats.downloaded = 0]_vars

\* C13, amended: the loop stops at the evaluate step exactly when no failure is
\* pending and nothing was downloaded in the pass; otherwise a further pass is
\* started while cycle_count < max_cycles, and with the budget used up the run
\* ends, with success whenever no failure is pending, downloads made in the
\* last pass or not.
EvaluateStepAmended ==
  [][(last_op'.op # "kill") =>
       /\ (pc = "evaluate") =>
            IF oc_failed_files = <<>> /\ download_stats.downloaded = 0
            THEN pc' = "report" ELSE pc' = "cycle"
       /\ (pc = "cycle") =>
            IF cycle_count < max_cycles
            THEN pc' = "scan" /\ cycle_count' = cycle_count + 1
            ELSE pc' = "report"
       /\ (pc \in {"evaluate", "cycle"} /\ pc' = "report" /\ oc_failed_files = <<>>)
            => (download_stats.downloaded = 0 \/ cycle_count = max_cycles)]_vars

\* The budget is used up and the run ends with success although the last pass
\* downloaded a file.
EvaluateStepWitness ==
  /\ program = "owncloud"
  /\ pc = "report"
  /\ cycle_count = max_cycles
  /\ oc_failed_files = <<>>
  /\ download_stats.downloaded > 0

\* C14: a run never makes more than max_cycles passes; when the budget is used
\* up with failures pending the loop is left for the report, which lists every
\* item of failed_files and does not claim success, and the process ends.
PassBudget ==
  [][/\ cycle_count' <= max_cycles
     /\ (pc = "cycle" /\ cycle_count >= max_cycles /\ last_op'.op # "kill")
          => pc' = "report"
     /\ (program = "owncloud" /\ last_op'.op = "report")
          => /\ pc' = "off"
             /\ last_op'.listed = oc_failed_files
             /\ last_op'.success <=> (oc_failed_files = <<>>)]_vars

\* The last pass of the budget left a failure, and the report listed it.
PassBudgetWitness ==
  /\ program = "owncloud"
  /\ pc = "off"
  /\ last_op.op = "report"
  /\ cycle_count = max_cycles
  /\ last_op.listed # <<>>
  /\ ~last_op.success

\* C15: when the run ends, every item that is recorded as failed and absent
\* locally is listed by the final report, items at max_retries included, and
\* the run does not report success while there is such an item.
FinalReportComplete ==
  [][(pc = "report" /\ pc' = "off" /\ last_op'.op # "kill") =>
       LET recorded == IF program = "sharepoint" THEN failed_files
                                                 ELSE oc_failed_files
       IN \A i \in RemoteFiles :
            (/\ HasRecord(recorded, i.name, i.path)
             /\ ~Exists(fs, LocalPath(i.path, i.name)))
            => /\ ~last_op'.success
               /\ HasRecord(last_op'.listed, i.name, i.path)]_vars

-----------------------------------------------------------------------------
(* One run of either program, as download.main starts it *)

Record(stem, path, retries) ==
  [name |-> FileName(stem, "txt"), path |-> path, retries |-> retries]

\* State files an earlier SharePoint run can have left behind.
EarlierStateFiles ==
  { NoFile,
    StateFile(<< Record("r", RootPath, 1) >>),
    StateFile(<< Record("x", <<"A">>, max_retries) >>),
    StateFile(<< Record("x", <<"A">>, 1), Record("r", RootPath, 1) >>) }

\* Mirrors an earlier run can have left behind: any part of the tree.
EarlierMirrors ==
  { [p \in {LocalPath(i.path, i.name) : i \in have} |->
       RemoteContent([name |-> p.name, path |-> p.dir])] :
    have \in SUBSET RemoteFiles }

\* What else the download directory can hold when a run starts: a file
\* n.tmp mirrored into folder A from an earlier state of the share, and the
\* x.txt.crdownload a killed run left in the landing directory.
LeftBehind ==
  LET mirrored == LocalPath(<<"A">>, FileName("n", "tmp"))
      partial == LocalPath(RootPath, InProgress(FileName("x", "txt")))
  IN { [p \in have |-> IF p = partial THEN Partial ELSE [size |-> 1, id |-> "n"]] :
       have \in SUBSET {mirrored, partial} }

EarlierDownloadDirs == { m @@ l : m \in EarlierMirrors, l \in LeftBehind }

RunInit ==
  /\ program \in {"sharepoint", "owncloud"}
  /\ remote = TraverseOrder
  /\ fs \in EarlierDownloadDirs
  /\ state_file \in (IF program = "sharepoint" THEN EarlierStateFiles ELSE {NoFile})
  /\ now = 0
  /\ pc = "off"
  /\ todo = <<>>
  /\ download_stats = ZeroStats
  /\ failed_files = <<>>
  /\ io_faulty = FALSE
  /\ pending = <<>>
  /\ groups = <<>>
  /\ cwd = RootPath
  /\ monitor = NoMonitor
  /\ samples = <<>>
  /\ handle = NoHandle
  /\ cycle_count = 0
  /\ oc_failed_files = <<>>
  /\ retry_list = <<>>
  /\ retry_failed_files = <<>>
  /\ attempts = [i \in RemoteFiles |-> 0]
  /\ last_op = NoOp
  /\ runs = 0
  /\ faulted = FALSE
  /\ triggered = FALSE

\* The steps of a process that is started once and not killed.
RunNext ==
  \/ runs = 0 /\ SPStart
  \/ SPAccess
  \/ SPTraverseFile
  \/ SPTraverseFolder
  \/ SPAfterTraverse
  \/ SPRetryNavigate
  \/ SPRetryFile
  \/ SPRetryNextGroup
  \/ SPAfterRetry
  \/ SPFinalCheck
  \/ SPFinish
  \/ runs = 0 /\ OCStart
  \/ OCLogin
  \/ OCBeginCycle
  \/ OCScanFile
  \/ OCScanFolder
  \/ OCAfterScan
  \/ OCRetryFile
  \/ OCAfterRetry
  \/ OCEvaluate
  \/ OCReport

\* Both programs are single-threaded and every wait in them is bounded by a
\* timeout: a process that can take a step takes one.
RunSpec == RunInit /\ [][RunNext]_vars /\ WF_vars(RunNext)

\* The run is over.
Terminated == runs = 1 /\ pc = "off"

Mirror(f) == [q \in {p \in DOMAIN f : ~p.name.cr} |-> f[q]]

\* C16: when access_share_link / login_to_owncloud fails the run ends at once:
\* no folder is listed, no download is triggered, and the state file and the
\* mirrored files are what they were before the process was started.
SessionFailureFatal ==
  [][/\ (pc = "off" /\ pc' # "off")
          => /\ state_file' = state_file
             /\ Mirror(fs') = Mirror(fs)
     /\ (last_op'.op \in {"access_failed", "login_failed"})
          => /\ pc' = "off"
             /\ state_file' = state_file
             /\ fs' = fs
             /\ todo' = <<>>
             /\ ~triggered']_vars

\* C17: a failed write of the state file is fatal for the run: the step after
\* a save_state that failed ends the process, it does not go on traversing or
\* downloading.
StorageFailureFatal ==
  [][(last_op.op \in {"add_failed", "mark_success"} /\ ~last_op.saved)
       => pc' = "off"]_vars

\* C18: when the process starts, the records in memory are those of the state
\* file as the previous process left it, names, paths and retries unchanged,
\* and none when there is no state file.
RestartResume ==
  [][(last_op'.op = "load_state") =>
       /\ Len(failed_files') = Len(Persisted(state_file))
       /\ \A k \in 1..Len(failed_files') :
            /\ failed_files'[k].name = Persisted(state_file)[k].name
            /\ failed_files'[k].path = Persisted(state_file)[k].path
            /\ failed_files'[k].retries = Persisted(state_file)[k].retries
       /\ ~state_file.present => failed_files' = <<>>
       /\ state_file' = state_file]_vars

\* A process was killed with records in the state file, one of them retried
\* already, and the next process has loaded them.
RestartResumeWitness ==
  /\ runs >= 2
  /\ last_op.op = "load_state"
  /\ state_file.present
  /\ failed_files = Persisted(state_file)
  /\ \E k \in 1..Len(failed_files) : failed_files[k].retries >= 2

\* C19: once a process lists folders or triggers downloads, the landing
\* directory holds no *.crdownload a previous process left behind, and no file
\* of the mirror is such a left-over finalized by monitor_download.
CleanStart ==
  (pc \in {"traverse", "scan", "navigate", "retry"}) =>
     \A p \in DOMAIN fs : ~p.name.cr /\ fs[p] # Partial

\* One run of either program on the tree /A/x.txt, /A/B/y.txt, started on an
\* empty download directory.
ScenarioInit ==
  program \in {"sharepoint", "owncloud"} /\ remote = ScenarioOrder /\ Fresh

ScenarioSpec == ScenarioInit /\ [][RunNext]_vars

\* C20: on the tree /A/x.txt, /A/B/y.txt with an empty mirror and downloads
\* that succeed, when the first pass is over (main.py: the evaluate step of
\* pass 1; sharepoint_download.py: the end of main) both files are mirrored,
\* there is no state file, and download_stats shows total_files = 2,
\* downloaded = 2, failed = 0.
ScenarioFirstPass ==
  LET over == \/ program = "owncloud" /\ pc = "evaluate" /\ cycle_count = 1
              \/ program = "sharepoint" /\ pc = "off" /\ runs = 1
  IN (over /\ ~faulted) =>
       /\ \A i \in RemoteFiles :
            /\ Exists(fs, LocalPath(i.path, i.name))
            /\ fs[LocalPath(i.path, i.name)] = RemoteContent(i)
       /\ ~state_file.present
       /\ download_stats.total_files = 2
       /\ download_stats.downloaded = 2
       /\ download_stats.failed = 0

-----------------------------------------------------------------------------
(* Properties of the traversal pass *)

\* The traversal pass is about to handle a file.
AtFile == pc \in {"traverse", "scan"} /\ todo # <<>> /\ Head(todo).kind = "file"

\* C21: a file whose destination exists is counted in existing_files and no
\* download is triggered for it; total_files counts only the files that are not
\* present, so when the pass is over total_files = downloaded + failed.
DiscoveredCount ==
  [][/\ (/\ AtFile
         /\ Exists(fs, LocalPath(Head(todo).path, Head(todo).name))
         /\ last_op'.op # "kill")
          => /\ download_stats'.existing_files = download_stats.existing_files + 1
             /\ download_stats'.total_files = download_stats.total_files
             /\ fs' = fs
             /\ attempts' = attempts
     /\ (pc \in {"traverse", "scan"} /\ todo = <<>>)
          => download_stats.total_files
               = download_stats.downloaded + download_stats.failed]_vars

\* C22: a file that is not present ends the traversal step in exactly one of
\* two ways: downloaded is incremented and the success is recorded, or failed
\* is incremented and the failure is recorded (add_failed; main.py appends to
\* failed_files).
TwoOutcomes ==
  [][(/\ AtFile
      /\ ~Exists(fs, LocalPath(Head(todo).path, Head(todo).name))
      /\ last_op'.op # "kill")
       => LET recordedSuccess == IF program = "sharepoint"
                                 THEN last_op'.op = "mark_success"
                                 ELSE oc_failed_files' = oc_failed_files
              recordedFailure == IF program = "sharepoint"
                                 THEN last_op'.op = "add_failed"
                                 ELSE oc_failed_files'
                                        = Append(oc_failed_files, Item(Head(todo)))
          IN \/ /\ download_stats'.downloaded = download_stats.downloaded + 1
                /\ download_stats'.failed = download_stats.failed
                /\ recordedSuccess /\ ~recordedFailure
             \/ /\ download_stats'.failed = download_stats.failed + 1
                /\ download_stats'.downloaded = download_stats.downloaded
                /\ recordedFailure /\ ~recordedSuccess]_vars

-----------------------------------------------------------------------------
(* Navigation: one run of either program on a tree with sibling folders *)

SiblingInit ==
  program \in {"sharepoint", "owncloud"} /\ remote = SiblingOrder /\ Fresh

SiblingSpec == SiblingInit /\ [][RunNext]_vars

\* The traversal pass is about to step into a sub-folder.
AtFolder == pc \in {"traverse", "scan"} /\ todo # <<>> /\ Head(todo).kind = "enter"

\* C23: whenever the traversal of a folder turns to its next sub-folder, the
\* browser shows that folder (again), whatever happened in the sub-folders
\* handled before.
NavigationInvariant == AtFolder => cwd = Head(todo).path

\* C24: a sub-folder is passed over only for an error of its own (the browser
\* shows its parent, and the folder is not found there or cannot be entered),
\* never because of what happened to an earlier sibling.
SiblingIsolation ==
  [][(AtFolder /\ todo' = SkipFolder(Tail(todo), Head(todo).name))
       => cwd = Head(todo).path]_vars

\* The traversal pass or the retry round is about to handle this file.
Handling(i) ==
  \/ AtFile /\ Item(Head(todo)) = i
  \/ /\ program = "sharepoint" /\ pc = "retry" /\ groups # <<>>
     /\ Head(groups).names # <<>>
     /\ i = [name |-> Head(Head(groups).names), path |-> Head(groups).path]
  \/ program = "owncloud" /\ pc = "retry" /\ retry_list # <<>> /\ Head(retry_list) = i

\* The failure store of the running program, as it stands after the step, has
\* a record of the file.
RecordedAfter(i) ==
  IF program = "sharepoint" THEN HasRecord(failed_files', i.name, i.path)
  ELSE IF pc = "scan" THEN i \in Range(oc_failed_files')
  ELSE i \in Range(retry_failed_files')

\* C25: a step that handles a file and leaves it absent from its local
\* destination leaves a record of it in the failure store (the state file's
\* records; main.py: the list of failures under construction).
ErrorsBecomeRecords ==
  [][\A i \in RemoteFiles :
       (/\ Handling(i)
        /\ last_op'.op # "kill"
        /\ ~Exists(fs', LocalPath(i.path, i.name)))
       => RecordedAfter(i)]_vars

\* C33: when the traversal of a folder turns to one of its sub-folders, every
\* file of the folder has had its turn in this pass (it is present, or a
\* download was attempted, or it is recorded as failed), the sub-folder is
\* left before the next one is entered, and a step (a call of the download
\* function, which returns when its monitor_download has returned) triggers
\* downloads for one file only.
PerDirectoryOrdering ==
  [][/\ AtFolder =>
          /\ \A k \in 1..Len(todo) :
                ~(todo[k].kind = "file" /\ todo[k].path = Head(todo).path)
          /\ \A i \in RemoteFiles :
                i.path = Head(todo).path =>
                  \/ Exists(fs, LocalPath(i.path, i.name))
                  \/ attempts[i] > 0
                  \/ IF program = "sharepoint"
                     THEN HasRecord(failed_files, i.name, i.path)
                     ELSE i \in Range(oc_failed_files)
          /\ (cwd' = Append(cwd, Head(todo).name) /\ Len(todo') > 1)
                => /\ todo'[1].kind \in {"file", "leave"}
                   /\ \E k \in 1..Len(todo') :
                        /\ todo'[k].kind = "leave"
                        /\ todo'[k].name = Head(todo).name
                        /\ \A j \in 1..(k - 1) : todo'[j].kind = "file"
     /\ Cardinality({i \in RemoteFiles : attempts'[i] > attempts[i]}) <= 1]_vars

\* The traversal has handled the file of the root, has been through folder A
\* and stands in the root again, about to enter folder B.
PerDirectoryOrderingWitness ==
  /\ AtFolder
  /\ Head(todo).name = "B"
  /\ cwd = RootPath
  /\ attempts[[name |-> FileName("x", "txt"), path |-> RootPath]] > 0
  /\ attempts[[name |-> FileName("x", "txt"), path |-> <<"A">>]] > 0

SuccessDestination ==
  /\ (last_op.op = "download" /\ last_op.ok)
       => Exists(fs, LocalPath(last_op.path, last_op.name))
  /\ (last_op.op = "mark_success" /\ ~last_op.present)
       => Exists(fs, LocalPath(last_op.path, last_op.name))

\* C36: a file that is at its destination in the mirror stays there as it is
\* through every step that handles another file (its download, the polls of
\* its monitor_download and its relocation) or no file at all.
MirroredStable ==
  [][\A i \in RemoteFiles :
       (Exists(fs, LocalPath(i.path, i.name)) /\ ~Handling(i))
       => /\ Exists(fs', LocalPath(i.path, i.name))
          /\ fs'[LocalPath(i.path, i.name)] = fs[LocalPath(i.path, i.name)]]_vars

\* C37: the records in memory and the records of the state file each hold at
\* most one record per (name, path), and every record has retries >= 1.
UniqueRecords ==
  \A ff \in {failed_files, Persisted(state_file)} :
    /\ \A k, l \in 1..Len(ff) :
         (ff[k].name = ff[l].name /\ ff[k].path = ff[l].path) => k = l
    /\ \A k \in 1..Len(ff) : ff[k].retries >= 1

\* Two files are on record, one of them after a second failure.
UniqueRecordsWitness ==
  /\ Len(failed_files) = 2
  /\ Persisted(state_file) = failed_files
  /\ \E k \in 1..2 : failed_files[k].retries >= 2
  /\ last_op.op = "add_failed"
  /\ last_op.had

-----------------------------------------------------------------------------
(* Properties of the retry round *)

\* C26: when the navigation to the folder of a group has not reached it, the
\* retry round triggers no download for the entries of the group (no attempt
\* is counted by retry_failed_downloads, nothing arrives in the download
\* directory) and leaves their records as they are.
NavigationFailureAborts ==
  [][\A i \in RemoteFiles :
       (/\ pc = "retry"
        /\ Handling(i)
        /\ last_op'.op # "kill"
        /\ IF program = "sharepoint" THEN cwd # i.path ELSE cwd' # i.path)
       => /\ fs' = fs
          /\ IF program = "sharepoint"
             THEN /\ attempts'[i] = attempts[i]
                  /\ HasRecord(failed_files', i.name, i.path)
                  /\ Retries(failed_files', i.name, i.path)
                       = Retries(failed_files, i.name, i.path)
             ELSE i \in Range(retry_failed_files')]_vars

\* While the retry round runs, another process or the operator stores a
\* missing file at its destination (the case main.py, line 1394, allows for).
Placed ==
  /\ pc \in {"navigate", "retry"}
  /\ \E i \in RemoteFiles :
       /\ ~Exists(fs, LocalPath(i.path, i.name))
       /\ fs' = WriteFile(fs, LocalPath(i.path, i.name), RemoteContent(i))
  /\ last_op' = NoOp
  /\ UNCHANGED <<program, remote, cwd, monitor, samples, handle, now, pc, todo,
                 download_stats, sp_vars, oc_vars, attempts, runs, faulted,
                 triggered>>

PlacedNext == RunNext \/ Placed

\* One run of either program during which missing files can turn up.
PlacedSpec == RunInit /\ [][PlacedNext]_vars

\* C27: when the retry round comes to a pending entry whose file exists at its
\* destination, no download is triggered and the entry leaves the store
\* (mark_success; main.py: it is not carried over to the new failed_files).
AlreadyPresentRetry ==
  [][\A i \in RemoteFiles :
       (/\ pc = "retry"
        /\ Handling(i)
        /\ Exists(fs, LocalPath(i.path, i.name))
        /\ (groups' # groups \/ retry_list' # retry_list)
        /\ last_op'.op # "kill")
       => /\ fs' = fs
          /\ attempts' = attempts
          /\ triggered' = triggered
          /\ IF program = "sharepoint"
             THEN /\ last_op'.op = "mark_success"
                  /\ ~HasRecord(failed_files', i.name, i.path)
                  /\ ~HasRecord(Persisted(state_file'), i.name, i.path)
             ELSE /\ last_op'.op = "skip"
                  /\ retry_failed_files' = retry_failed_files]_vars

\* The retry round has just removed the record of an entry because its file
\* was there.
AlreadyPresentRetryWitness ==
  /\ last_op.op = "mark_success"
  /\ last_op.by = "retry"
  /\ last_op.present
  /\ last_op.had
  /\ ~HasRecord(Persisted(state_file), last_op.name, last_op.path)

-----------------------------------------------------------------------------
(* monitor_download on its own: the browser writes the file that was asked
   for into the landing directory while monitor_download polls it *)

\* config.DOWNLOAD_TIMEOUT and config.SHAREPOINT_DOWNLOAD_TIMEOUT, in seconds
\* (src/config.py:18, :45 set 3600); the model runs a scaled-down
\* configuration.
DOWNLOAD_TIMEOUT == 30

SHAREPOINT_DOWNLOAD_TIMEOUT == 18

\* time.sleep at the end of an iteration: main.py 5 s, sharepoint_download.py
\* 3 s; and the wait before the size is read once more.
oc_poll_interval == 5

sp_poll_interval == 3

confirm_wait == 2

\* stable_count >= 3
stable_threshold == 3

\* Largest size the file in progress grows to.
MaxSize == 2

\* Number of size readings the history keeps.
SampleWindow == 5

\* The file monitor_download is called for, and the folder it belongs to.
Expected == [name |-> FileName("x", "txt"), path |-> <<"A">>]

\* What else the landing directory can hold when monitor_download starts:
\* other files of the mirror's root, and a copy Chrome numbered.
Bystanders ==
  { LocalPath(RootPath, FileName("xy", "txt")),
    LocalPath(RootPath, FileName("x", "pdf")),
    LocalPath(RootPath, StampedName(FileName("x", "txt"), 1)) }

timeout == IF program = "sharepoint" THEN SHAREPOINT_DOWNLOAD_TIMEOUT
           ELSE DOWNLOAD_TIMEOUT

poll_interval == IF program = "sharepoint" THEN sp_poll_interval
                 ELSE oc_poll_interval

\* The loop condition with the comparison turned round.
monitor_loop_condition_ge(t, start_time, limit) == t - start_time >= limit

\* while time.time() - start_time < timeout
monitor_loop_condition(t, start_time, limit) == t - start_time < limit

\* The last SampleWindow readings.
Window(seq) ==
  IF Len(seq) <= SampleWindow THEN seq
  ELSE SubSeq(seq, Len(seq) - SampleWindow + 1, Len(seq))

\* The name without Chrome's suffix: f.replace('.crdownload', '')
Finalized(f_name) == [f_name EXCEPT !.cr = FALSE]

\* sharepoint_download.py, lines 507 and 512: f.startswith(base_name) and
\* f.endswith(ext), or f.endswith(ext + ".crdownload"); never a *.tmp.
sp_variant(f_name, filename) ==
  /\ StartsWith(f_name, filename)
  /\ f_name.ext = filename.ext
  /\ f_name.ext # "tmp" \/ f_name.cr

\* move_file_to_directory of the running program.
move_file_to_directory(f, source, filename, target_dir, t) ==
  IF program = "sharepoint"
  THEN sp_move_file_to_directory(f, source, filename, target_dir, t)
  ELSE oc_move_file_to_directory(f, source, filename, target_dir, t)

\* The size of a file in progress is read and compared with last_size
\* (main.py 631-655, sharepoint_download.py 483-497 and 513-526).
Watch(path) ==
  LET current_size == fs[path].size IN
  /\ samples' = Window(Append(samples, [at |-> "poll", size |-> current_size]))
  /\ IF current_size = monitor.last_size
     THEN IF monitor.stable_count + 1 >= stable_threshold
          THEN /\ monitor' = [monitor EXCEPT !.stable_count = @ + 1,
                                             !.current_size = current_size,
                                             !.download_file_path = path]
               /\ pc' = "confirm"
               /\ now' = now + confirm_wait
          ELSE /\ monitor' = [monitor EXCEPT !.stable_count = @ + 1]
               /\ pc' = "poll"
               /\ now' = now + poll_interval
     ELSE /\ monitor' = [monitor EXCEPT !.stable_count = 0,
                                        !.last_size = current_size]
          /\ pc' = "poll"
          /\ now' = now + poll_interval
  /\ last_op' = NoOp
  /\ UNCHANGED fs

\* A complete file is handed to move_file_to_directory under `filename`, and
\* monitor_download returns what that returns.
Relocated(source, filename) ==
  LET m == move_file_to_directory(fs, source, filename, Expected.path, now) IN
  /\ fs' = m.fs
  /\ monitor' = [monitor EXCEPT !.result = IF m.ok THEN "true" ELSE "false"]
  /\ pc' = "off"
  /\ last_op' = [op |-> "relocate", source |-> source, filename |-> filename,
                 ok |-> m.ok]
  /\ UNCHANGED <<now, samples, handle>>

\* Nothing to look at in this iteration: time.sleep.
Sleep ==
  /\ now' = now + poll_interval
  /\ last_op' = NoOp
  /\ UNCHANGED <<fs, monitor, pc, samples, handle>>

\* main.monitor_download, one iteration of the loop (lines 618-669).
OCMonitorPoll ==
  /\ program = "owncloud"
  /\ pc = "poll"
  /\ monitor_loop_condition(now, monitor.start_time, timeout)
  /\ IF oc_crdownload_files(fs, Expected.name) # {}
     THEN \E first \in oc_crdownload_files(fs, Expected.name) : Watch(first)
     ELSE IF oc_complete_files(fs, Expected.name) # {}
          THEN \E first \in oc_complete_files(fs, Expected.name) :
                 Relocated(first, Expected.name)
          ELSE Sleep
  /\ UNCHANGED <<program, remote, cwd, handle, todo, download_stats, sp_vars,
                 oc_vars, attempts, runs, faulted, triggered>>

\* SharePointDownloader.monitor_download, one iteration of the loop (lines
\* 473-529): the exact name in progress, else the exact name, else the first
\* file of the listing that is a variant of the name.
SPMonitorPoll ==
  /\ program = "sharepoint"
  /\ pc = "poll"
  /\ monitor_loop_condition(now, monitor.start_time, timeout)
  /\ LET exact == LocalPath(RootPath, Expected.name)
         crdownload == LocalPath(RootPath, InProgress(Expected.name))
         variants == {q \in DOMAIN fs : /\ q.dir = RootPath
                                        /\ sp_variant(q.name, Expected.name)}
     IN IF Exists(fs, crdownload) THEN Watch(crdownload)
        ELSE IF Exists(fs, exact) THEN Relocated(exact, Expected.name)
        ELSE IF variants # {}
             THEN \E first \in variants :
                    IF first.name.cr THEN Watch(first)
                    ELSE Relocated(first, first.name)
             ELSE Sleep
  /\ UNCHANGED <<program, remote, cwd, handle, todo, download_stats, sp_vars,
                 oc_vars, attempts, runs, faulted, triggered>>

\* Both programs, after the extra wait: the size is read once more; when it
\* is the same the suffix is removed and the file is relocated, else (or when
\* reading it raises because the file is gone) the loop sleeps and goes on.
MonitorConfirm ==
  /\ pc = "confirm"
  /\ LET path == monitor.download_file_path
         final == LocalPath(RootPath, Finalized(path.name))
         filename == IF program = "sharepoint" /\ path.name # InProgress(Expected.name)
                     THEN final.name ELSE Expected.name
     IN IF Exists(fs, path) /\ fs[path].size = monitor.current_size
        THEN LET m == move_file_to_directory(Rename(fs, path, final), final,
                                             filename, Expected.path, now)
             IN /\ fs' = m.fs
                /\ monitor' = [monitor EXCEPT !.result = IF m.ok THEN "true"
                                                          ELSE "false"]
                /\ pc' = "off"
                /\ samples' = Window(Append(samples,
                                [at |-> "confirm", size |-> fs[path].size]))
                /\ last_op' = [op |-> "finalize", source |-> path,
                               filename |-> filename, ok |-> m.ok]
                /\ UNCHANGED now
        ELSE /\ pc' = "poll"
             /\ now' = now + poll_interval
             /\ samples' = IF Exists(fs, path)
                           THEN Window(Append(samples,
                                  [at |-> "confirm", size |-> fs[path].size]))
                           ELSE samples
             /\ last_op' = NoOp
             /\ UNCHANGED <<fs, monitor>>
  /\ UNCHANGED <<program, remote, cwd, handle, todo, download_stats, sp_vars,
                 oc_vars, attempts, runs, faulted, triggered>>

\* The except branch of the loop, with a return for the sleep.
on_poll_error_aborts(m) == [m EXCEPT !.result = "false"]

\* The except branch of the loop (main.py 671-673, sharepoint_download.py
\* 530-532): the exception is logged, the locals stay as they are.
on_poll_error(m) == m

\* One iteration in which os.listdir or os.path.getsize raises (the file is
\* locked by the writer, the directory cannot be read): the except branch
\* sleeps and the loop goes on.
MonitorPollError ==
  /\ pc = "poll"
  /\ monitor_loop_condition(now, monitor.start_time, timeout)
  /\ monitor' = on_poll_error(monitor)
  /\ pc' = IF monitor'.result = "running" THEN "poll" ELSE "off"
  /\ now' = now + poll_interval
  /\ last_op' = [op |-> "poll_error"]
  /\ faulted' = TRUE
  /\ UNCHANGED <<program, remote, cwd, samples, handle, fs, todo, download_stats,
                 sp_vars, oc_vars, attempts, runs, triggered>>

\* The loop condition fails: monitor_download returns False.
MonitorTimeout ==
  /\ pc = "poll"
  /\ ~monitor_loop_condition(now, monitor.start_time, timeout)
  /\ monitor' = [monitor EXCEPT !.result = "false"]
  /\ pc' = "off"
  /\ last_op' = [op |-> "timeout"]
  /\ UNCHANGED <<program, remote, cwd, samples, handle, fs, now, todo, download_stats,
                 sp_vars, oc_vars, attempts, runs, faulted, triggered>>

\* The browser writes the file that was asked for: <name>.crdownload appears
\* empty and grows.
BrowserWrites ==
  /\ pc \in {"poll", "confirm"}
  /\ LET crdownload == LocalPath(RootPath, InProgress(Expected.name)) IN
     IF Exists(fs, crdownload)
     THEN /\ fs[crdownload].size < MaxSize
          /\ fs' = [fs EXCEPT ![crdownload].size = @ + 1]
     ELSE /\ ~Exists(fs, LocalPath(RootPath, Expected.name))
          /\ fs' = WriteFile(fs, crdownload, [size |-> 0, id |-> "x"])
  /\ last_op' = NoOp
  /\ UNCHANGED <<program, remote, cwd, monitor, samples, handle, now, pc, todo,
                 download_stats, sp_vars, oc_vars, attempts, runs, faulted,
                 triggered>>

\* The browser has received the whole file and gives it its name.
BrowserCompletes ==
  /\ pc \in {"poll", "confirm"}
  /\ LET crdownload == LocalPath(RootPath, InProgress(Expected.name)) IN
     /\ Exists(fs, crdownload)
     /\ fs' = Rename(fs, crdownload, LocalPath(RootPath, Expected.name))
  /\ last_op' = NoOp
  /\ UNCHANGED <<program, remote, cwd, monitor, samples, handle, now, pc, todo,
                 download_stats, sp_vars, oc_vars, attempts, runs, faulted,
                 triggered>>

\* monitor_download has just been called for Expected.
MonitorInit ==
  /\ program \in {"sharepoint", "owncloud"}
  /\ remote = TraverseOrder
  /\ \E have \in SUBSET Bystanders :
       fs = [q \in have |-> [size |-> 1, id |-> "other"]]
  /\ now = 0
  /\ pc = "poll"
  /\ monitor = [NoMonitor EXCEPT !.result = "running"]
  /\ samples = <<>>
  /\ handle = NoHandle
  /\ cwd = Expected.path
  /\ todo = <<>>
  /\ download_stats = ZeroStats
  /\ failed_files = <<>>
  /\ state_file = NoFile
  /\ io_faulty = FALSE
  /\ pending = <<>>
  /\ groups = <<>>
  /\ cycle_count = 0
  /\ oc_failed_files = <<>>
  /\ retry_list = <<>>
  /\ retry_failed_files = <<>>
  /\ attempts = [i \in RemoteFiles |-> 0]
  /\ last_op = NoOp
  /\ runs = 1
  /\ faulted = FALSE
  /\ triggered = TRUE

\* The steps of monitor_download.
MonitorStep ==
  \/ OCMonitorPoll
  \/ SPMonitorPoll
  \/ MonitorPollError
  \/ MonitorConfirm
  \/ MonitorTimeout

MonitorNext ==
  \/ MonitorStep
  \/ BrowserWrites
  \/ BrowserCompletes

\* monitor_download is single-threaded code whose waits are time.sleep calls:
\* it goes on whatever the browser does.
MonitorSpec == MonitorInit /\ [][MonitorNext]_vars /\ WF_vars(MonitorStep)

\* C28: a file in progress is finalized only when the last four polls read the
\* same size (three times in a row the size was the same as at the poll
\* before) and the reading after the extra wait gave that size too; and a poll
\* that reads another size than the reading before it sets stable_count to 0.
StableFinalization ==
  [][/\ (last_op'.op = "finalize")
          => LET n == Len(samples') IN
             /\ n >= stable_threshold + 2
             /\ samples'[n].at = "confirm"
             /\ \A k \in (n - stable_threshold - 1)..(n - 1) :
                  /\ samples'[k].at = "poll"
                  /\ samples'[k].size = samples'[n].size
     /\ (/\ pc = "poll" /\ pc' # "off"
         /\ samples # <<>> /\ samples' # samples
         /\ samples'[Len(samples')].size # samples[Len(samples)].size)
          => monitor'.stable_count = 0]_vars

\* C39: every increment of stable_count stands for two readings of the file
\* in progress made by this call of monitor_download that gave the same size:
\* the reading of this poll and the reading before it.
CountedObservations ==
  [][(monitor'.stable_count > monitor.stable_count)
       => /\ samples # <<>>
          /\ samples' # samples
          /\ samples'[Len(samples')].size = samples[Len(samples)].size]_vars

\* C29: the only entries of the landing directory monitor_download renames,
\* moves or deletes carry the expected name, the expected name in progress,
\* or the expected stem with a numeric suffix and the expected extension;
\* every other entry is left where and as it is.
MatchingRule ==
  [][(pc \in {"poll", "confirm"} /\ (pc' # pc \/ now' # now))
       => LET matching == { Expected.name, InProgress(Expected.name) }
                            \cup { StampedName(Expected.name, n) : n \in 0..9 }
          IN \A q \in DOMAIN fs :
               (q.dir = RootPath /\ q.name \notin matching)
                 => q \in DOMAIN fs' /\ fs'[q] = fs[q]]_vars

\* C30: monitor_download returns; when it returns because of the timeout the
\* timeout has elapsed and the result is False; and the loop starts no
\* iteration after the timeout, so the clock never passes the timeout by more
\* than one iteration (sleep and extra wait).
MonitorTerminates ==
  /\ <>(pc = "off" /\ monitor.result \in {"true", "false"})
  /\ [](last_op.op = "timeout"
          => /\ monitor.result = "false"
             /\ now - monitor.start_time >= timeout)
  /\ [](now - monitor.start_time < timeout + poll_interval + confirm_wait)

\* monitor_download has returned False after polling a file in progress until
\* the timeout.
MonitorTerminatesWitness ==
  /\ pc = "off"
  /\ last_op.op = "timeout"
  /\ monitor.result = "false"
  /\ samples # <<>>
  /\ now - monitor.start_time >= timeout

\* C31: an iteration in which reading the landing directory raises does not
\* end monitor_download and changes nothing; and an iteration that reads the
\* directory before the timeout, when the complete file is there and nothing
\* that matches is in progress, still relocates a file and returns True.
PollErrorTolerated ==
  [][/\ (last_op'.op = "poll_error")
          => /\ pc' = "poll"
             /\ monitor' = monitor
             /\ fs' = fs
     /\ (/\ pc = "poll"
         /\ monitor_loop_condition(now, monitor.start_time, timeout)
         /\ Exists(fs, LocalPath(RootPath, Expected.name))
         /\ \A q \in DOMAIN fs : ~q.name.cr
         /\ now' # now \/ pc' # pc
         /\ last_op'.op # "poll_error")
          => /\ pc' = "off"
             /\ monitor'.result = "true"]_vars

\* monitor_download has returned True after an iteration had raised.
PollErrorToleratedWitness ==
  /\ pc = "off"
  /\ faulted
  /\ monitor.result = "true"
  /\ last_op.op = "relocate"
  /\ last_op.source = LocalPath(RootPath, Expected.name)

-----------------------------------------------------------------------------
(* move_file_to_directory on its own: files land, the clock advances, and a
   landed file is relocated to a folder of the mirror *)

\* What the browser can deposit under one name: contents of two sizes.
Versions == { [size |-> 1, id |-> "v1"], [size |-> 2, id |-> "v2"],
              [size |-> 1, id |-> "v3"], [size |-> 2, id |-> "v4"] }

LandedNames == { FileName("x", "txt") }

TargetDirs == { RootPath, <<"A">> }

\* The browser deposits a complete file in the landing directory (the download
\* root) under a name that is free there.
Land ==
  /\ \E n \in LandedNames, v \in Versions :
       /\ ~Exists(fs, LocalPath(RootPath, n))
       /\ fs' = WriteFile(fs, LocalPath(RootPath, n), v)
  /\ last_op' = NoOp
  /\ UNCHANGED <<program, remote, cwd, monitor, samples, handle, now, pc, todo, download_stats, sp_vars, oc_vars,
                 attempts, runs, faulted, triggered>>

\* A second passes.
Tick ==
  /\ now < MaxTime
  /\ now' = now + 1
  /\ last_op' = NoOp
  /\ UNCHANGED <<program, remote, cwd, monitor, samples, handle, fs, pc, todo, download_stats, sp_vars, oc_vars,
                 attempts, runs, faulted, triggered>>

\* monitor_download hands a complete file of the landing directory to
\* move_file_to_directory, under the file's name.
Relocate ==
  /\ \E source \in {p \in DOMAIN fs : p.dir = RootPath}, target_dir \in TargetDirs :
       LET m == IF program = "sharepoint"
                THEN sp_move_file_to_directory(fs, source, source.name, target_dir, now)
                ELSE oc_move_file_to_directory(fs, source, source.name, target_dir, now)
       IN /\ fs' = m.fs
          /\ last_op' = [op |-> "move", source |-> source, filename |-> source.name,
                         target_dir |-> target_dir, t |-> now, ok |-> m.ok,
                         existing |-> Exists(fs, LocalPath(target_dir, source.name))]
  /\ UNCHANGED <<program, remote, cwd, monitor, samples, handle, now, pc, todo, download_stats, sp_vars, oc_vars,
                 attempts, runs, faulted, triggered>>

ResolveInit ==
  program \in {"sharepoint", "owncloud"} /\ remote = TraverseOrder /\ Fresh

ResolveNext == Land \/ Tick \/ Relocate

ResolveSpec == ResolveInit /\ [][ResolveNext]_vars

\* C4: a relocation that finds a file of another size under the desired name
\* leaves that file as it is and stores the artifact beside it as
\* <stem>_<timestamp><ext>; both are there afterwards.
CollisionSafety ==
  [][(last_op'.op = "move") =>
       LET m == last_op'
           dest == LocalPath(m.target_dir, m.filename)
           stamped == LocalPath(m.target_dir, StampedName(m.filename, m.t))
       IN (/\ Exists(fs, dest)
           /\ dest # m.source
           /\ fs[dest].size # fs[m.source].size)
          => /\ m.ok
             /\ Exists(fs', dest) /\ fs'[dest] = fs[dest]
             /\ stamped # dest
             /\ Exists(fs', stamped) /\ fs'[stamped] = fs[m.source]
             /\ ~Exists(fs', m.source)]_vars

\* A relocation has just stored its artifact under a stamped name beside a
\* file of another size.
CollisionSafetyWitness ==
  /\ last_op.op = "move"
  /\ last_op.ok
  /\ LET dest == LocalPath(last_op.target_dir, last_op.filename)
         stamped == LocalPath(last_op.target_dir,
                              StampedName(last_op.filename, last_op.t))
     IN /\ Exists(fs, dest) /\ Exists(fs, stamped)
        /\ fs[dest].size # fs[stamped].size
        /\ ~Exists(fs, last_op.source)

\* C32: a relocation that finds another file of the same size under the
\* desired name deletes the artifact, leaves every other file as it is, and
\* returns True.
DuplicateHandling ==
  [][(last_op'.op = "move") =>
       LET m == last_op'
           dest == LocalPath(m.target_dir, m.filename)
       IN (/\ Exists(fs, dest)
           /\ dest # m.source
           /\ fs[dest].size = fs[m.source].size)
          => /\ m.ok
             /\ ~Exists(fs', m.source)
             /\ Exists(fs', dest) /\ fs'[dest] = fs[dest]
             /\ fs' = Remove(fs, m.source)]_vars

\* A relocation has just deleted its artifact because a file of the same size
\* and of other content was at the destination.
DuplicateHandlingWitness ==
  /\ last_op.op = "move"
  /\ last_op.ok
  /\ last_op.target_dir = <<"A">>
  /\ last_op.existing
  /\ ~Exists(fs, last_op.source)
  /\ Exists(fs, LocalPath(last_op.target_dir, last_op.filename))
  /\ DOMAIN fs = {LocalPath(last_op.target_dir, last_op.filename)}

\* C38: a relocation leaves every file that was in the target folder as it
\* was (the source itself apart), also a copy that an earlier collision has
\* stored there under a stamped name.
NoOverwrite ==
  [][(last_op'.op = "move") =>
       \A q \in DOMAIN fs :
         (q.dir = last_op'.target_dir /\ q # last_op'.source)
         => Exists(fs', q) /\ fs'[q] = fs[q]]_vars

-----------------------------------------------------------------------------
(* The retry round of sharepoint_download.py and its result *)

\* C40: a file that is not found in the listing has its count incremented by
\* the traversal and its record left as it is by the retry round; and
\* retried_count, which is incremented together with download_stats['retried'],
\* goes up by one exactly in the steps of the retry round that remove a record
\* after a download of their own, so that what retry_failed_downloads returns
\* is the number of those steps.
RetryRoundCount ==
  [][/\ (/\ last_op'.op = "add_failed" /\ last_op'.by = "traverse"
         /\ attempts' = attempts)
          => Retries(failed_files', last_op'.name, last_op'.path)
               = Retries(failed_files, last_op'.name, last_op'.path) + 1
     /\ (/\ program = "sharepoint" /\ pc = "retry" /\ pc' = "retry"
         /\ groups # <<>> /\ groups' # groups
         /\ Head(groups).names # <<>>)
          => LET it == [name |-> Head(Head(groups).names),
                        path |-> Head(groups).path]
                 redone == /\ last_op'.op = "mark_success"
                           /\ ~last_op'.present
                           /\ ~HasRecord(failed_files', it.name, it.path)
             IN /\ (~Exists(fs, LocalPath(it.path, it.name)) /\ attempts' = attempts)
                     => /\ failed_files' = failed_files
                        /\ state_file' = state_file
                        /\ download_stats' = download_stats
                /\ download_stats'.retried =
                     download_stats.retried + (IF redone THEN 1 ELSE 0)
     /\ (pc = "traverse" /\ pc' = "navigate")
          => download_stats.retried = 0
     /\ (pc = "retry" /\ pc' = "final")
          => download_stats.retried <=
               Cardinality({k \in 1..Len(pending) :
                  ~HasRecord(failed_files, pending[k].name, pending[k].path)})]_vars

\* The retry round has returned 1: of two pending files one was downloaded
\* again and removed, the other was not found and has the count it had.
RetryRoundCountWitness ==
  /\ pc = "final"
  /\ Len(pending) = 2
  /\ download_stats.retried = 1
  /\ Len(failed_files) = 1
  /\ \E k \in 1..2 : pending[k] = failed_files[1]
  /\ attempts[[name |-> failed_files[1].name, path |-> failed_files[1].path]] = 0

-----------------------------------------------------------------------------
(* Properties of a whole run *)

\* C3: once a run has completed with every request served, a second run on the
\* unchanged tree triggers no download.
Idempotence == (runs >= 2 /\ ~faulted) => ~triggered

=============================================================================
